---- MODULE Spec2Model ----
(***************************************************************************)
(* CAELUS compliance system: the rule-based chat responder of src/app.py   *)
(* (chat_with_documents) and the compliance checker it is fed by.          *)
(*                                                                         *)
(* Texts are sequences of tokens.  A token is a word, or a number with the *)
(* word that follows it (its unit); a string is a sequence of one-letter   *)
(* strings, so that what the code captures, renders and parses is a text   *)
(* and not a number.                                                       *)
(***************************************************************************)
EXTENDS Integers, Sequences, FiniteSets, TLC

VARIABLES
    question,     \* user_question of the calls under observation
    batch,        \* compliance_results of the calls under observation
    reLoaded,     \* whether the interpreter has module re in sys.modules
    first,        \* the first observed call: its arguments and outcome
    outcome,      \* the latest observed call: its arguments and outcome
    between       \* "none", then "made" once another call followed the first observed
                  \* one, then "observed" once an observed call followed that
VARIABLES
    designDoc,          \* the design_text handed to the compliance checker
    requirementUnits,   \* the requirement units (their texts) it is checked against
    checked             \* what the latest call of the checker gave
VARIABLES
    session_state,      \* st.session_state of every browser session of main()
    temp_files,         \* semantic_units.json of every temporary directory
    page_shown          \* what the latest run of main() showed in every session
VARIABLES
    compliance_checker, \* what the checker handed to the benchmark does on each test case
    benchmark_results,  \* what the latest benchmark run, or summary, produced
    benchmark_report    \* what generate_benchmark_report made of these results

chatVars == <<question, batch, reLoaded, first, outcome, between>>

checkerVars == <<designDoc, requirementUnits, checked>>

appVars == <<session_state, temp_files, page_shown>>

benchVars == <<compliance_checker, benchmark_results, benchmark_report>>

vars == <<question, batch, reLoaded, first, outcome, between,
          designDoc, requirementUnits, checked,
          session_state, temp_files, page_shown,
          compliance_checker, benchmark_results, benchmark_report>>

----------------------------------------------------------------------------
(* Bounds *)

MaxBatch == 2

MaxUnits == 2

MaxTurns == 2

----------------------------------------------------------------------------
(* Strings and tokens *)

Digits == <<"0", "1", "2", "3", "4", "5", "6", "7", "8", "9">>

IsDigit(c) == \E i \in 1..10 : Digits[i] = c

DigitValue(c) == (CHOOSE i \in 1..10 : Digits[i] = c) - 1

\* A word token: no number, the word s, written with capitals or not.
Word(s) == [num |-> <<>>, s |-> s, sp |-> FALSE, cap |-> FALSE]

CapWord(s) == [num |-> <<>>, s |-> s, sp |-> FALSE, cap |-> TRUE]

\* A number immediately followed by the word s ("45mm").
Num(n, s) == [num |-> n, s |-> s, sp |-> FALSE, cap |-> FALSE]

\* A number, white space, the word s ("50 mm").
NumSp(n, s) == [num |-> n, s |-> s, sp |-> TRUE, cap |-> FALSE]

\* str.lower(): every letter of the text in lower case.
Lower(text) == [i \in 1..Len(text) |-> [text[i] EXCEPT !.cap = FALSE]]

\* The key words that occur in a word as substrings.
SubstringsOf(s) ==
    CASE s = "results" -> {"results", "result"}
      [] s = "underscore" -> {"underscore", "score"}
      [] s = "powerful" -> {"powerful", "power"}
      [] OTHER -> {s}

\* Python's `kw in text` for a lower-case literal kw: a substring test, which
\* a word written with capitals does not pass.
Contains(text, kw) ==
    \E i \in 1..Len(text) : ~text[i].cap /\ kw \in SubstringsOf(text[i].s)

----------------------------------------------------------------------------
(* Regular expressions of chat_with_documents *)

RECURSIVE TrailingDigits(_)
\* The longest run of digits that ends the string n.
TrailingDigits(n) ==
    IF n = <<>> \/ ~IsDigit(n[Len(n)])
    THEN <<>>
    ELSE Append(TrailingDigits(SubSeq(n, 1, Len(n) - 1)), n[Len(n)])

\* What (\d+\.\d+) captures when the match must end where n ends: digits, a
\* point, digits; <<>> when n does not end that way.
TrailingDecimal(n) ==
    LET frac == TrailingDigits(n)
        k    == Len(n) - Len(frac)
        int  == IF k >= 2 /\ n[k] = "." THEN TrailingDigits(SubSeq(n, 1, k - 1)) ELSE <<>>
    IN  IF frac # <<>> /\ int # <<>> THEN int \o <<".">> \o frac ELSE <<>>

\* group(1) of re.search(r'(\d+)\s*<unit>', text) for the units given, <<>>
\* when there is no match: the leftmost number that a unit follows, white
\* space between them or not.
SearchInt(text, units) ==
    LET hits == {i \in 1..Len(text) :
                    /\ TrailingDigits(text[i].num) # <<>>
                    /\ ~text[i].cap
                    /\ text[i].s \in units}
    IN  IF hits = {} THEN <<>>
        ELSE TrailingDigits(text[CHOOSE i \in hits : \A j \in hits : i <= j].num)

\* group(1) of re.search(r'(\d+\.\d+)g', text), <<>> when there is no match:
\* the leftmost decimal number with a g right behind it.
SearchDecimalG(text) ==
    LET hits == {i \in 1..Len(text) :
                    /\ TrailingDecimal(text[i].num) # <<>>
                    /\ ~text[i].cap
                    /\ ~text[i].sp
                    /\ text[i].s = "g"}
    IN  IF hits = {} THEN <<>>
        ELSE TrailingDecimal(text[CHOOSE i \in hits : \A j \in hits : i <= j].num)

\* The placeholder a slot holds until a value is captured (lines 55-62).
NA == <<"N", "/", "A">>

\* An assignment that keeps the first value captured.
AssignOnce(slot, captured) == IF slot = NA /\ captured # <<>> THEN captured ELSE slot

\* `if m: slot = m.group(1)`: a match replaces the slot, no match leaves it.
Assign(slot, captured) == IF captured # <<>> THEN captured ELSE slot

RECURSIVE ToNumber(_)
\* float() of a string of digits.
ToNumber(n) ==
    IF n = <<>> THEN 0
    ELSE 10 * ToNumber(SubSeq(n, 1, Len(n) - 1)) + DigitValue(n[Len(n)])

RECURSIVE ToChars(_)
\* str() of a natural number.
ToChars(v) ==
    IF v < 10 THEN <<Digits[v + 1]>>
    ELSE Append(ToChars(v \div 10), Digits[(v % 10) + 1])

----------------------------------------------------------------------------
(* chat_with_documents *)

HelpMessage ==
    "I can help you with questions about compliance scores, insulation thickness, seismic resistance, emergency power requirements, and containment pumps. Please ask a specific question about these topics."

\* What a call gives: a response (a template of `responses` and the values
\* rendered into it, or the help message) or the exception it raised.
Blank ==
    [kind |-> "pending", template |-> "", text |-> "", score |-> <<>>,
     issues |-> <<>>, design |-> <<>>, required |-> <<>>, meets |-> ""]

Raised(exc) == [Blank EXCEPT !.kind = "error", !.template = exc]

Help == [Blank EXCEPT !.kind = "response", !.template = "help", !.text = HelpMessage]

\* A count that takes every result not marked Non-Compliant for compliant.
compliant_count_lenient(results) ==
    Cardinality({i \in 1..Len(results) : results[i].compliance_status # "Non-Compliant"})

\* compliant_count / total_checks: the results whose status is 'Compliant'.
compliant_count(results) ==
    Cardinality({i \in 1..Len(results) : results[i].compliance_status = "Compliant"})

\* round() of num/den to the nearest integer, halves to the even one, as
\* float formatting rounds.
RoundHalfEven(num, den) ==
    LET q == num \div den
        r == num % den
    IN  IF 2 * r < den THEN q
        ELSE IF 2 * r > den THEN q + 1
        ELSE IF q % 2 = 0 THEN q ELSE q + 1

\* f"{compliant / total * 100:.1f}"
Format1f(compliant, total) ==
    LET tenths == RoundHalfEven(1000 * compliant, total)
    IN  ToChars(tenths \div 10) \o <<".">> \o ToChars(tenths % 10)

\* A name re bound at module level: bound as soon as some call imported it.
ReBoundOnceLoaded(loaded) == loaded

\* The name re is local to chat_with_documents (it is imported inside the
\* function), so it is unbound when a call starts, whatever the interpreter
\* has loaded.
ReBoundAtEntry(loaded) == FALSE

\* The locals of the function before the results are scanned.
Locals(loaded) ==
    [re |-> ReBoundAtEntry(loaded), raised |-> FALSE,
     design_thickness |-> NA, required_thickness |-> NA,
     design_seismic |-> NA, required_seismic |-> NA,
     design_hours |-> NA, required_hours |-> NA,
     design_pumps |-> NA, required_pumps |-> NA]

\* re.search while re is unbound raises UnboundLocalError.
UseRe(acc, after) == IF acc.re THEN after ELSE [acc EXCEPT !.raised = TRUE]

\* A scan that tests for the seismic requirement first.
CategoryOf_seismic_first(regulation_text) ==
    IF Contains(regulation_text, "seismic") THEN "seismic"
    ELSE IF Contains(regulation_text, "insulation") /\ Contains(regulation_text, "thickness")
    THEN "insulation"
    ELSE IF Contains(regulation_text, "hours") /\ Contains(regulation_text, "emergency")
    THEN "emergency"
    ELSE IF Contains(regulation_text, "pumps") /\ Contains(regulation_text, "containment")
    THEN "pumps"
    ELSE "none"

\* The if/elif conditions of lines 76, 87, 96 and 105 on the lower-cased
\* regulation text of a result: the branch the result takes.
CategoryOf(regulation_text) ==
    IF Contains(regulation_text, "insulation") /\ Contains(regulation_text, "thickness")
    THEN "insulation"
    ELSE IF Contains(regulation_text, "seismic") THEN "seismic"
    ELSE IF Contains(regulation_text, "hours") /\ Contains(regulation_text, "emergency")
    THEN "emergency"
    ELSE IF Contains(regulation_text, "pumps") /\ Contains(regulation_text, "containment")
    THEN "pumps"
    ELSE "none"

\* The pattern a branch searches both texts with.
Search(category, text) ==
    CASE category = "insulation" -> SearchInt(text, {"mm"})
      [] category = "seismic" -> SearchDecimalG(text)
      [] category = "emergency" -> SearchInt(text, {"hours"})
      [] category = "pumps" -> SearchInt(text, {"independent", "separate"})
      [] OTHER -> <<>>

\* One pass of `for result in compliance_results`.
ScanResult(acc, result) ==
    LET regulation_text   == Lower(result.regulation_text)
        design_text_lower == Lower(result.design_text)
        category          == CategoryOf(regulation_text)
        required          == Search(category, regulation_text)
        design            == Search(category, design_text_lower)
    IN  IF acc.raised THEN acc
        ELSE CASE category = "insulation" ->
                    [acc EXCEPT
                        !.re = TRUE,
                        !.required_thickness = Assign(@, required),
                        !.design_thickness = Assign(@, design)]
               [] category = "seismic" ->
                    UseRe(acc, [acc EXCEPT
                        !.required_seismic = Assign(@, required),
                        !.design_seismic = Assign(@, design)])
               [] category = "emergency" ->
                    UseRe(acc, [acc EXCEPT
                        !.required_hours = Assign(@, required),
                        !.design_hours = Assign(@, design)])
               [] category = "pumps" ->
                    UseRe(acc, [acc EXCEPT
                        !.required_pumps = Assign(@, required),
                        !.design_pumps = Assign(@, design)])
               [] OTHER -> acc

RECURSIVE ScanFrom(_, _, _)
\* The loop over the results from the i-th on.
ScanFrom(acc, results, i) ==
    IF i > Len(results) THEN acc
    ELSE ScanFrom(ScanResult(acc, results[i]), results, i + 1)

\* `if compliance_results:` is false for None and for an empty list.
Truthy(compliance_results) ==
    ~compliance_results.none /\ Len(compliance_results.items) > 0

\* Lines 52-112: the locals after the extraction.
Extracted(compliance_results, loaded) ==
    IF Truthy(compliance_results)
    THEN ScanFrom(Locals(loaded), compliance_results.items, 1)
    ELSE Locals(loaded)

AnyIn(question_lower, words) == \E w \in words : Contains(question_lower, w)

\* The chain with the seismic group tested before the compliance group.
TopicOfSeismicFirst(question_lower) ==
    IF AnyIn(question_lower, {"seismic", "earthquake"}) THEN "seismic"
    ELSE IF AnyIn(question_lower, {"compliance", "score", "overall", "result"}) THEN "compliance"
    ELSE IF AnyIn(question_lower, {"insulation", "thickness"}) THEN "insulation"
    ELSE IF AnyIn(question_lower, {"emergency", "power", "hours"}) THEN "emergency"
    ELSE IF AnyIn(question_lower, {"pumps", "containment"}) THEN "pumps"
    ELSE "help"

\* The if/elif chain of lines 117-133 on the lower-cased question.
TopicOf(question_lower) ==
    IF AnyIn(question_lower, {"compliance", "score", "overall", "result"}) THEN "compliance"
    ELSE IF AnyIn(question_lower, {"insulation", "thickness"}) THEN "insulation"
    ELSE IF AnyIn(question_lower, {"seismic", "earthquake"}) THEN "seismic"
    ELSE IF AnyIn(question_lower, {"emergency", "power", "hours"}) THEN "emergency"
    ELSE IF AnyIn(question_lower, {"pumps", "containment"}) THEN "pumps"
    ELSE "help"

RECURSIVE StringGE(_, _)
\* a >= b for Python strings: the order of the dictionary.
StringGE(a, b) ==
    IF b = <<>> THEN TRUE
    ELSE IF a = <<>> THEN FALSE
    ELSE IF a[1] = b[1] THEN StringGE(Tail(a), Tail(b))
    ELSE DigitValue(a[1]) > DigitValue(b[1])

\* The comparison made on the captured strings instead of their values.
MeetsAsStrings(design_hours, required_hours) ==
    IF /\ design_hours # NA
       /\ required_hours # NA
       /\ StringGE(design_hours, required_hours)
    THEN "meets" ELSE "does not meet"

\* Line 127: float(design_hours) >= float(required_hours), unless a side is N/A.
Meets(design_hours, required_hours) ==
    IF /\ design_hours # NA
       /\ required_hours # NA
       /\ ToNumber(design_hours) >= ToNumber(required_hours)
    THEN "meets" ELSE "does not meet"

Answer(template, design, required) ==
    [Blank EXCEPT !.kind = "response", !.template = template,
                  !.design = design, !.required = required]

\* The call: what it returns or raises.  design_text and regulations_text are
\* parameters the body never reads.
chat_with_documents(user_question, design_text, regulations_text, compliance_results, loaded) ==
    LET acc   == Extracted(compliance_results, loaded)
        total == Len(compliance_results.items)
        good  == compliant_count(compliance_results.items)
        topic == TopicOf(Lower(user_question))
    IN  IF acc.raised THEN Raised("UnboundLocalError")
        ELSE CASE topic = "compliance" ->
                    [Blank EXCEPT
                        !.kind = "response", !.template = "compliance",
                        !.score = IF Truthy(compliance_results)
                                  THEN Format1f(good, total) ELSE <<"0", ".", "0">>,
                        !.issues = IF Truthy(compliance_results)
                                   THEN ToChars(total - good) ELSE ToChars(0)]
               [] topic = "insulation" ->
                    Answer("insulation", acc.design_thickness, acc.required_thickness)
               [] topic = "seismic" ->
                    Answer("seismic", acc.design_seismic, acc.required_seismic)
               [] topic = "emergency" ->
                    [Answer("emergency", acc.design_hours, acc.required_hours)
                        EXCEPT !.meets = Meets(acc.design_hours, acc.required_hours)]
               [] topic = "pumps" ->
                    Answer("pumps", acc.design_pumps, acc.required_pumps)
               [] OTHER -> Help

\* `import re` runs when the insulation branch is entered and leaves the
\* module in sys.modules.
LoadedAfter(compliance_results, loaded) ==
    loaded \/ Extracted(compliance_results, loaded).re

----------------------------------------------------------------------------
(* Inputs: questions, stored results and document texts *)

Questions ==
    { <<Word("hello")>>,
      <<Word("what"), Word("compliance"), Word("score")>>,
      <<CapWord("results")>>,
      <<Word("seismic"), Word("score")>>,
      <<Word("containment"), Word("insulation")>>,
      <<Word("thickness")>>,
      <<Word("hours"), CapWord("earthquake")>>,
      <<Word("powerful"), Word("pumps")>>,
      <<CapWord("hours")>>,
      <<Word("pumps")>> }

ComplianceResult(regulation_text, design_text, compliance_status) ==
    [regulation_text |-> regulation_text, design_text |-> design_text,
     compliance_status |-> compliance_status]

InsulationResults ==
    { ComplianceResult(<<Word("insulation"), Word("thickness"), NumSp(<<"5", "0">>, "mm")>>,
                       <<Word("thickness"), Num(<<"4", "5">>, "mm")>>, "Non-Compliant"),
      ComplianceResult(<<CapWord("insulation"), Word("thickness"), Num(<<"6", "0">>, "mm")>>,
                       <<Num(<<"5", "5">>, "mm")>>, "Compliant"),
      ComplianceResult(<<Word("insulation"), Word("thickness")>>,
                       <<Word("insulation")>>, "Unknown") }

SeismicResults ==
    { ComplianceResult(<<CapWord("seismic"), Num(<<"0", ".", "3", "5">>, "g")>>,
                       <<Word("seismic"), Num(<<"0", ".", "2", "5">>, "g")>>, "Non-Compliant") }

EmergencyResults ==
    { ComplianceResult(<<Word("emergency"), NumSp(<<"7", "2">>, "hours")>>,
                       <<NumSp(<<"1", "0", "0">>, "hours")>>, "Compliant"),
      ComplianceResult(<<Word("emergency"), NumSp(<<"7", "2">>, "hours")>>,
                       <<NumSp(<<"7", "2">>, "hours")>>, "Compliant"),
      ComplianceResult(<<Word("emergency"), NumSp(<<"1", "0", "0">>, "hours")>>,
                       <<NumSp(<<"9", "6">>, "hours")>>, "Non-Compliant") }

PumpResults ==
    { ComplianceResult(<<Word("containment"), Word("pumps"), NumSp(<<"3">>, "independent")>>,
                       <<Word("two"), Word("independent"), Word("pumps")>>, "Unknown") }

OtherResults ==
    { ComplianceResult(<<Word("material")>>, <<>>, "Unknown") }

\* Results on passages of several topics: a requirement on insulation thickness
\* that names the seismic load too, against a design that states the pipe wall
\* before the insulation; and a requirement on the seismic load that names the
\* emergency supply.
MultiTopicResults ==
    { ComplianceResult(<<Word("insulation"), Word("thickness"), NumSp(<<"7", "0">>, "mm"),
                         Word("seismic"), Num(<<"0", ".", "5">>, "g")>>,
                       <<Word("pipe"), Word("wall"), Word("thickness"), NumSp(<<"3", "8">>, "mm"),
                         Word("insulation"), Word("thickness"), Num(<<"4", "5">>, "mm"),
                         Word("seismic"), Num(<<"0", ".", "4", "5">>, "g")>>,
                       "Non-Compliant"),
      ComplianceResult(<<CapWord("seismic"), Num(<<"0", ".", "3", "5">>, "g"),
                         Word("emergency"), NumSp(<<"4", "8">>, "hours")>>,
                       <<Num(<<"0", ".", "3">>, "g"), NumSp(<<"2", "4">>, "hours")>>,
                       "Non-Compliant") }

Results ==
    InsulationResults \cup SeismicResults \cup EmergencyResults \cup PumpResults
        \cup OtherResults

RECURSIVE SeqsUpTo(_, _)
\* The sequences over S of length at most n.
SeqsUpTo(S, n) ==
    IF n = 0 THEN {<<>>}
    ELSE LET shorter == SeqsUpTo(S, n - 1)
         IN  shorter \cup {Append(q, x) : q \in shorter, x \in S}

NoResults == [none |-> TRUE, items |-> <<>>]

ResultList(items) == [none |-> FALSE, items |-> items]

\* A batch of four results, one of them compliant, as a whole regulatory
\* document gives.
FourResults ==
    <<ComplianceResult(<<Word("insulation"), Word("thickness"), NumSp(<<"5", "0">>, "mm")>>,
                       <<Word("thickness"), Num(<<"4", "5">>, "mm")>>, "Non-Compliant"),
      ComplianceResult(<<CapWord("seismic"), Num(<<"0", ".", "3", "5">>, "g")>>,
                       <<Word("seismic"), Num(<<"0", ".", "2", "5">>, "g")>>, "Non-Compliant"),
      ComplianceResult(<<Word("emergency"), NumSp(<<"7", "2">>, "hours")>>,
                       <<NumSp(<<"9", "6">>, "hours")>>, "Compliant"),
      ComplianceResult(<<Word("containment"), Word("pumps"), NumSp(<<"3">>, "independent")>>,
                       <<Word("two"), Word("independent"), Word("pumps")>>, "Unknown")>>

\* st.session_state.results: None, or a list of results.
\* The batches of a result on several topics, alone, and with another one,
\* after a result on insulation or before one on the seismic load.
MultiTopicBatches ==
    {ResultList(<<r>>) : r \in MultiTopicResults}
        \cup {ResultList(<<r, q>>) :
                r \in MultiTopicResults \cup InsulationResults,
                q \in MultiTopicResults \cup SeismicResults}

Batches ==
    {NoResults, ResultList(FourResults)}
        \cup {ResultList(q) : q \in SeqsUpTo(Results, MaxBatch)}
        \cup MultiTopicBatches

\* The design_text and regulations_text arguments of a call.
ArgPairs ==
    { << <<Num(<<"3", "8">>, "mm")>>, <<Word("insulation"), NumSp(<<"4", "0">>, "mm")>> >>,
      << <<>>, <<>> >> }

----------------------------------------------------------------------------
(* The state main() gives a browser session on its first run, and the state *)
(* of a benchmark before its run                                            *)

\* The browser sessions served by the one Streamlit process.
Sessions == {"s1", "s2"}

\* A mkdtemp() that hands every session the same directory.
mkdtemp_shared(session) == <<"tmp", "s1">>

\* tempfile.mkdtemp(): a directory that did not exist before the call, one
\* per session.
mkdtemp(session) == <<"tmp", session>>

TempDirs == {mkdtemp(session) : session \in Sessions}

\* No semantic_units.json in the directory.
NoFile == [exists |-> FALSE, units |-> <<>>]

\* The keys main() sets when the session does not have them.
InitialSessionState(session) ==
    [temp_dir            |-> mkdtemp(session),
     processed           |-> FALSE,
     analysis_complete   |-> FALSE,
     results             |-> NoResults,
     design_text         |-> <<>>,
     regulations_text    |-> <<>>,
     semantic_units_path |-> <<>>,
     chat_history        |-> <<>>]

AppIdle ==
    /\ session_state = [session \in Sessions |-> InitialSessionState(session)]
    /\ temp_files = [dir \in TempDirs |-> NoFile]
    /\ page_shown = [session \in Sessions |-> ""]

\* No benchmark run yet.
NotRun == [op |-> "none", error |-> "", test_cases |-> <<>>, summary |-> <<>>]

\* No report generated from the results at hand.
NoReport == [op |-> "none", raises |-> FALSE, error |-> "", key |-> "",
             summary |-> <<>>, rows |-> <<>>]

BenchIdle ==
    /\ compliance_checker = <<>>
    /\ benchmark_results = NotRun
    /\ benchmark_report = NoReport

----------------------------------------------------------------------------
(* The chat responder called on given inputs *)

Call(args, out) == [args |-> args, out |-> out]

NoCall == Call(<<>>, Blank)

\* No call of the checker yet.
NotChecked ==
    [op |-> "none", unit |-> 0, error |-> "", results |-> <<>>, extractions |-> 0]

NoText == [none |-> TRUE, text |-> <<>>]

CheckerIdle ==
    /\ designDoc = NoText
    /\ requirementUnits = <<>>
    /\ checked = NotChecked

InitChat ==
    /\ CheckerIdle
    /\ AppIdle
    /\ BenchIdle
    /\ question \in Questions
    /\ batch \in Batches
    /\ reLoaded \in BOOLEAN
    /\ first = NoCall
    /\ outcome = NoCall
    /\ between = "none"

\* A call with the observed question and batch.
ChatCall(args) ==
    LET out == chat_with_documents(question, args[1], args[2], batch, reLoaded)
    IN  /\ outcome' = Call(args, out)
        /\ first' = IF first = NoCall THEN Call(args, out) ELSE first
        /\ reLoaded' = LoadedAfter(batch, reLoaded)
        /\ between' = IF between = "made" THEN "observed" ELSE between
        /\ UNCHANGED <<question, batch>>
        /\ UNCHANGED <<checkerVars, appVars, benchVars>>

\* A call with another question and batch, made in the same interpreter; its
\* outcome goes to its own caller.
OtherChatCall(q, b, args) ==
    /\ first # NoCall
    /\ chat_with_documents(q, args[1], args[2], b, reLoaded).kind # "pending"
    /\ reLoaded' = LoadedAfter(b, reLoaded)
    /\ between' = IF between = "none" THEN "made" ELSE between
    /\ UNCHANGED <<question, batch, first, outcome>>
    /\ UNCHANGED <<checkerVars, appVars, benchVars>>

OtherQuestions == {q \in Questions : Len(q) = 1 /\ q[1].s \in {"hello", "pumps"}}

OtherBatches == {ResultList(<<r>>) : r \in InsulationResults \cup SeismicResults}

NextChat ==
    \/ \E args \in ArgPairs : ChatCall(args)
    \/ \E q \in OtherQuestions, b \in OtherBatches, args \in ArgPairs : OtherChatCall(q, b, args)

SpecChat == InitChat /\ [][NextChat]_vars

----------------------------------------------------------------------------
(* Properties of chat_with_documents (checked under SpecChat) *)

\* The keyword groups of the question topics, in the order they are tested.
KeywordGroups ==
    << [topic |-> "compliance", words |-> {"compliance", "score", "overall", "result"}],
       [topic |-> "insulation", words |-> {"insulation", "thickness"}],
       [topic |-> "seismic", words |-> {"seismic", "earthquake"}],
       [topic |-> "emergency", words |-> {"emergency", "power", "hours"}],
       [topic |-> "pumps", words |-> {"pumps", "containment"}] >>

MatchingGroups(q) ==
    {g \in 1..Len(KeywordGroups) :
        \E w \in KeywordGroups[g].words : Contains(Lower(q), w)}

EarliestGroup(q) ==
    IF MatchingGroups(q) = {} THEN "help"
    ELSE KeywordGroups[CHOOSE g \in MatchingGroups(q) :
                            \A h \in MatchingGroups(q) : g <= h].topic

ValueTopics == {"insulation", "seismic", "emergency", "pumps"}

Observed == outcome # NoCall

Returned == Observed /\ outcome.out.kind = "response"

Out == outcome.out

\* The value the i-th result of the batch yields for a topic on one side
\* ("design_text" or "regulation_text"), <<>> when it yields none.
Yielded(topic, side, i) ==
    LET r == batch.items[i]
    IN  IF CategoryOf(Lower(r.regulation_text)) = topic
        THEN Search(topic, Lower(r[side]))
        ELSE <<>>

Yielding(topic, side) ==
    {i \in 1..Len(batch.items) : Yielded(topic, side, i) # <<>>}

FirstYielded(topic, side) ==
    IF Yielding(topic, side) = {} THEN NA
    ELSE Yielded(topic, side, CHOOSE i \in Yielding(topic, side) :
                                    \A j \in Yielding(topic, side) : i <= j)

LastYielded(topic, side) ==
    IF Yielding(topic, side) = {} THEN NA
    ELSE Yielded(topic, side, CHOOSE i \in Yielding(topic, side) :
                                    \A j \in Yielding(topic, side) : i >= j)

\* C1: a question with none of the topic keywords gets the fixed help message,
\* verbatim, whatever the batch holds.
C1_HelpWhateverTheBatch ==
    (Observed /\ MatchingGroups(question) = {}) =>
        /\ Out.kind = "response"
        /\ Out.text = HelpMessage

\* C2: the response is written from the template of the earliest keyword group
\* that has a keyword in the lower-cased question, and it is the help message
\* only when no group has one.
C2_EarliestGroupSelectsTemplate ==
    Returned =>
        /\ Out.template = EarliestGroup(question)
        /\ (Out.text = HelpMessage) <=> (MatchingGroups(question) = {})

C2_Witness ==
    /\ Returned
    /\ MatchingGroups(question) = {1, 3}
    /\ Out.template = "compliance"

Abs(x) == IF x < 0 THEN -x ELSE x

StatusCount(status) ==
    Cardinality({i \in 1..Len(batch.items) : batch.items[i].compliance_status = status})

\* C3: the response to a compliance question renders compliant/total*100 to
\* one decimal (0.0 for an empty or absent batch) and issues = total -
\* compliant, where only the status 'Compliant' counts as compliant.
C3_ScoreAndIssues ==
    (Returned /\ Out.template = "compliance") =>
        LET total     == Len(batch.items)
            compliant == total - StatusCount("Non-Compliant") - StatusCount("Unknown")
            tenths    == ToNumber(SelectSeq(Out.score, IsDigit))
        IN  /\ Len(Out.score) >= 3
            /\ Out.score[Len(Out.score) - 1] = "."
            /\ 2 * Abs(tenths * total - 1000 * compliant) <= total
            /\ total = 0 => tenths = 0
            /\ ToNumber(Out.issues) = total - compliant
            /\ ToNumber(Out.issues) = StatusCount("Non-Compliant") + StatusCount("Unknown")

C3_Witness ==
    /\ Returned
    /\ Out.template = "compliance"
    /\ Len(batch.items) = 4
    /\ StatusCount("Compliant") = 1
    /\ Out.score = <<"2", "5", ".", "0">>
    /\ Out.issues = <<"3">>

\* C4 as claimed: the values rendered for a topic are the first ones found in
\* the batch; later results do not replace them.
C4_FirstValuesReported ==
    (Returned /\ Out.template \in ValueTopics) =>
        /\ Out.design = FirstYielded(Out.template, "design_text")
        /\ Out.required = FirstYielded(Out.template, "regulation_text")

\* C4 as amended: the values rendered for a topic are the last ones found in
\* the batch; every later result of the category that yields a value replaces
\* the value of the earlier ones.
C4_LastValuesReported ==
    (Returned /\ Out.template \in ValueTopics) =>
        /\ Out.design = LastYielded(Out.template, "design_text")
        /\ Out.required = LastYielded(Out.template, "regulation_text")

C4_Witness ==
    /\ Returned
    /\ Out.template = "insulation"
    /\ Cardinality(Yielding("insulation", "design_text")) = 2
    /\ FirstYielded("insulation", "design_text") # LastYielded("insulation", "design_text")
    /\ FirstYielded("insulation", "regulation_text") # LastYielded("insulation", "regulation_text")
    /\ Out.design = <<"5", "5">>
    /\ Out.required = <<"6", "0">>

\* C5: a question on insulation, seismic, emergency or pumps is answered with
\* the sentence of its topic for every batch, never with an exception; a slot
\* for which the batch yields no value reads N/A.
C5_ValueTopicsNeverRaise ==
    (Observed /\ EarliestGroup(question) \in ValueTopics) =>
        /\ Out.kind = "response"
        /\ Out.template = EarliestGroup(question)
        /\ Yielding(Out.template, "design_text") = {} => Out.design = NA
        /\ Yielding(Out.template, "regulation_text") = {} => Out.required = NA

\* C6: the emergency response says "meets" exactly when both hour values were
\* extracted and the design hours, as a number, are at least the required
\* hours; otherwise it says "does not meet".
C6_MeetsIsNumeric ==
    (Returned /\ Out.template = "emergency") =>
        /\ Out.meets \in {"meets", "does not meet"}
        /\ (Out.meets = "meets") <=>
              /\ Out.design # NA
              /\ Out.required # NA
              /\ ToNumber(Out.design) >= ToNumber(Out.required)

C6_Witness ==
    /\ Returned
    /\ Out.template = "emergency"
    /\ Out.design = <<"1", "0", "0">>
    /\ Out.required = <<"7", "2">>
    /\ Out.meets = "meets"

\* C7: two calls with the same question and the same batch have the same
\* outcome, a response or a failure, whatever design_text and
\* regulations_text they are passed and whatever calls came between them.
C7_SameInputsSameOutcome ==
    Observed => outcome.out = first.out

C7_Witness ==
    /\ between = "observed"
    /\ outcome.args # first.args
    /\ reLoaded
    /\ outcome.out.kind = "error"

----------------------------------------------------------------------------
(* The compliance checker: ComplianceChecker of compliance_checker.py, as    *)
(* the specification describes it (4.2 Extractor, 4.3 Comparator, 4.4       *)
(* VerdictAssembler, 7 errors), as main() and the benchmark call it and as  *)
(* the tests expect it to behave.                                           *)

Doc(text) == [none |-> FALSE, text |-> text]

\* Empty or absent: "" or None.
IsEmpty(doc) == doc.none \/ doc.text = <<>>

MaterialGrades == {"316l", "304", "300-series"}

\* 3, 4.2: the category a requirement text addresses, by its trigger keywords,
\* the first match in table order.
categorize(text) ==
    LET t == Lower(text)
    IN  IF Contains(t, "insulation") /\ Contains(t, "thickness") THEN "insulation"
        ELSE IF Contains(t, "seismic") THEN "seismic"
        ELSE IF Contains(t, "emergency") /\ Contains(t, "hours") THEN "emergency"
        ELSE IF Contains(t, "pumps") /\ Contains(t, "containment") THEN "pumps"
        ELSE IF \E g \in MaterialGrades : Contains(t, g) THEN "material"
        ELSE "unrecognized"

ThresholdCategories == {"insulation", "seismic", "emergency", "pumps"}

\* An ExtractedClaim: the number m / 10^e, or a grade family, or absent.
Absent == [present |-> FALSE, m |-> 0, e |-> 0, grade |-> ""]

Quantity(m, e) == [present |-> TRUE, m |-> m, e |-> e, grade |-> ""]

Grade(family) == [present |-> TRUE, m |-> 0, e |-> 0, grade |-> family]

\* The claim a captured number states: its digits and how many follow the point.
Parsed(captured) ==
    IF captured = <<>> THEN Absent
    ELSE LET frac == TrailingDigits(captured)
         IN  Quantity(ToNumber(SelectSeq(captured, IsDigit)),
                      IF Len(frac) < Len(captured) THEN Len(frac) ELSE 0)

NumberWords == <<"one", "two", "three", "four">>

\* A count written as a word with "independent" or "separate" next to it.
CountInWords(t) ==
    LET hits == {i \in 1..(Len(t) - 1) :
                    /\ \E v \in 1..Len(NumberWords) : NumberWords[v] = t[i].s
                    /\ t[i + 1].s \in {"independent", "separate"}}
        i    == CHOOSE h \in hits : \A j \in hits : h <= j
    IN  IF hits = {} THEN Absent
        ELSE Quantity(CHOOSE v \in 1..Len(NumberWords) : NumberWords[v] = t[i].s, 0)

\* The thickness stated right after the word thickness, in a passage on insulation.
AnchoredThickness(t) ==
    LET hits == {i \in 2..Len(t) :
                    /\ Contains(t, "insulation")
                    /\ t[i - 1].s = "thickness"
                    /\ t[i].s = "mm"
                    /\ TrailingDigits(t[i].num) # <<>>}
    IN  IF hits = {} THEN <<>>
        ELSE TrailingDigits(t[CHOOSE h \in hits : \A j \in hits : h <= j].num)

\* The grade family of the first material grade named.
GradeFamily(t) ==
    LET hits == {i \in 1..Len(t) : t[i].s \in MaterialGrades}
    IN  IF hits = {} THEN Absent ELSE Grade("300-series")

\* 4.2: extract(text, category): the patterns of the category tried in order,
\* the first match wins; absent when none matches.
extract(text, category) ==
    LET t == Lower(text)
    IN  CASE category = "insulation" ->
                IF AnchoredThickness(t) # <<>> THEN Parsed(AnchoredThickness(t))
                ELSE Parsed(SearchInt(t, {"mm"}))
          [] category = "seismic" -> Parsed(SearchDecimalG(t))
          [] category = "emergency" -> Parsed(SearchInt(t, {"hours"}))
          [] category = "pumps" ->
                IF SearchInt(t, {"independent", "separate"}) # <<>>
                THEN Parsed(SearchInt(t, {"independent", "separate"}))
                ELSE CountInWords(t)
          [] category = "material" -> GradeFamily(t)
          [] OTHER -> Absent

RECURSIVE Power10(_)
Power10(n) == IF n = 0 THEN 1 ELSE 10 * Power10(n - 1)

\* A comparator that takes a design value equal to the requirement for a violation.
compare_strictly(category, design_claim, requirement_claim) ==
    IF ~design_claim.present \/ ~requirement_claim.present THEN "Unknown"
    ELSE IF category \in ThresholdCategories
    THEN IF design_claim.m * Power10(requirement_claim.e)
                > requirement_claim.m * Power10(design_claim.e)
         THEN "Compliant" ELSE "Non-Compliant"
    ELSE IF category = "material"
    THEN IF design_claim.grade = requirement_claim.grade
         THEN "Compliant" ELSE "Non-Compliant"
    ELSE "Unknown"

\* 4.3: compare(category, design_claim, requirement_claim): the verdict.
compare(category, design_claim, requirement_claim) ==
    IF ~design_claim.present \/ ~requirement_claim.present THEN "Unknown"
    ELSE IF category \in ThresholdCategories
    THEN IF design_claim.m * Power10(requirement_claim.e)
                >= requirement_claim.m * Power10(design_claim.e)
         THEN "Compliant" ELSE "Non-Compliant"
    ELSE IF category = "material"
    THEN IF design_claim.grade = requirement_claim.grade
         THEN "Compliant" ELSE "Non-Compliant"
    ELSE "Unknown"

\* 4.4: the result of one requirement unit: both texts extracted under the
\* unit's category, the two claims compared.
Assemble(text, regulation_text) ==
    LET category == categorize(regulation_text)
    IN  ComplianceResult(regulation_text, text,
                         compare(category, extract(text, category),
                                 extract(regulation_text, category)))

Failed(op, unit) ==
    [op |-> op, unit |-> unit, error |-> "ValueError", results |-> <<>>, extractions |-> 0]

Succeeded(op, unit, results) ==
    [op |-> op, unit |-> unit, error |-> "", results |-> results,
     extractions |-> 2 * Len(results)]

\* A check that validates the design text only.
check_compliance_any_regulation(design, regulation_text, unit) ==
    IF IsEmpty(design)
    THEN Failed("check_compliance", unit)
    ELSE Succeeded("check_compliance", unit, <<Assemble(design.text, regulation_text)>>)

\* 7, tests/test_simple.py: check_compliance(design_text, regulation_text)
\* raises ValueError on an empty or absent text before it extracts anything.
check_compliance(design, regulation_text, unit) ==
    IF IsEmpty(design) \/ regulation_text = <<>>
    THEN Failed("check_compliance", unit)
    ELSE Succeeded("check_compliance", unit, <<Assemble(design.text, regulation_text)>>)

RECURSIVE ResultsOfRecognised(_, _)
\* A batch that leaves out the units whose category it does not recognise.
ResultsOfRecognised(text, units) ==
    IF units = <<>> THEN <<>>
    ELSE IF categorize(Head(units)) = "unrecognized"
    THEN ResultsOfRecognised(text, Tail(units))
    ELSE <<Assemble(text, Head(units))>> \o ResultsOfRecognised(text, Tail(units))

\* 4.4: the Comparator over every requirement unit against the full design
\* text: one result per unit, in the order of the units.
ResultsOf(text, units) ==
    [i \in 1..Len(units) |-> Assemble(text, units[i])]

\* A batch check that does not validate the design text.
batch_compliance_check_unvalidated(design, units) ==
    Succeeded("batch_compliance_check", 0, ResultsOf(design.text, units))

\* 4.4: batch_compliance_check(design_text) over the units the checker was
\* built with: an input error on an empty design text, else one result per unit.
batch_compliance_check(design, units) ==
    IF IsEmpty(design)
    THEN Failed("batch_compliance_check", 0)
    ELSE Succeeded("batch_compliance_check", 0, ResultsOf(design.text, units))

----------------------------------------------------------------------------
(* Inputs of the checker: the texts of the benchmark's and the tests' cases *)

DesignTexts ==
    { \* the designs of TC001 to TC004 and TC006 in one document
      <<Word("insulation"), Word("thickness"), Num(<<"4", "5">>, "mm"),
        Word("seismic"), Num(<<"0", ".", "2", "5">>, "g"),
        CapWord("emergency"), NumSp(<<"9", "6">>, "hours"),
        CapWord("containment"), Word("two"), Word("independent"), Word("pumps"),
        CapWord("316l")>>,
      \* the second design of test_basic_compliance, the other values at the limit
      <<Word("insulation"), Word("thickness"), Num(<<"5", "5">>, "mm"),
        Word("seismic"), Num(<<"0", ".", "3", "5">>, "g"),
        Word("emergency"), NumSp(<<"7", "2">>, "hours"),
        Word("containment"), NumSp(<<"3">>, "independent"), Word("pumps")>>,
      <<Word("insulation"), Word("thickness"), NumSp(<<"5", "0">>, "mm"),
        Word("seismic"), Num(<<"0", ".", "4">>, "g"),
        Word("emergency"), Num(<<"1", "0", "0">>, "hours")>>,
      <<Word("test"), Word("design")>> }

DesignDocs == {NoText, Doc(<<>>)} \cup {Doc(t) : t \in DesignTexts}

RegulationTexts ==
    { <<>>,
      <<Word("insulation"), Word("thickness"), NumSp(<<"5", "0">>, "mm")>>,
      <<CapWord("seismic"), Num(<<"0", ".", "3", "5">>, "g")>>,
      <<Word("emergency"), NumSp(<<"7", "2">>, "hours")>>,
      <<Word("containment"), Word("three"), Word("independent"), Word("pumps")>>,
      <<Word("300-series")>>,
      <<Word("test"), Word("regulation")>> }

----------------------------------------------------------------------------
(* The checker called on given inputs *)

ChatIdle ==
    /\ question = <<>>
    /\ batch = NoResults
    /\ reLoaded = FALSE
    /\ first = NoCall
    /\ outcome = NoCall
    /\ between = "none"

InitChecker ==
    /\ ChatIdle
    /\ AppIdle
    /\ BenchIdle
    /\ designDoc \in DesignDocs
    /\ requirementUnits \in SeqsUpTo(RegulationTexts, MaxUnits)
    /\ checked = NotChecked

\* checker.check_compliance(design_text, regulation_text) on one of the texts.
CheckCompliance(unit) ==
    /\ checked' = check_compliance(designDoc, requirementUnits[unit], unit)
    /\ UNCHANGED <<designDoc, requirementUnits>>
    /\ UNCHANGED <<chatVars, appVars, benchVars>>

\* checker.batch_compliance_check(design_text)
BatchCheck ==
    /\ checked' = batch_compliance_check(designDoc, requirementUnits)
    /\ UNCHANGED <<designDoc, requirementUnits>>
    /\ UNCHANGED <<chatVars, appVars, benchVars>>

NextChecker ==
    \/ \E unit \in 1..Len(requirementUnits) : CheckCompliance(unit)
    \/ BatchCheck

SpecChecker == InitChecker /\ [][NextChecker]_vars

----------------------------------------------------------------------------
(* Properties of the checker (checked under SpecChecker) *)

\* The claims of the k-th result of the latest call, extracted again from
\* the texts the result stores.
CategoryAt(k) == categorize(checked.results[k].regulation_text)

DesignClaimAt(k) == extract(checked.results[k].design_text, CategoryAt(k))

RequiredClaimAt(k) == extract(checked.results[k].regulation_text, CategoryAt(k))

\* The result is one of a threshold category with a claim on both sides.
Comparable(k) ==
    /\ CategoryAt(k) \in ThresholdCategories
    /\ DesignClaimAt(k).present
    /\ RequiredClaimAt(k).present

\* design value >= required value, the values being m / 10^e.
AtLeast(d, r) == d.m * Power10(r.e) >= r.m * Power10(d.e)

\* C8: for a threshold category with both claims present the verdict is
\* Compliant iff design value >= required value, Non-Compliant otherwise;
\* equal values are Compliant.
C8_ThresholdVerdict ==
    \A k \in 1..Len(checked.results) :
        Comparable(k) =>
            checked.results[k].compliance_status =
                IF AtLeast(DesignClaimAt(k), RequiredClaimAt(k))
                THEN "Compliant" ELSE "Non-Compliant"

C8_Witness ==
    /\ checked.op = "check_compliance"
    /\ Len(checked.results) = 1
    /\ Comparable(1)
    /\ CategoryAt(1) = "seismic"
    /\ DesignClaimAt(1) = RequiredClaimAt(1)
    /\ checked.results[1].compliance_status = "Compliant"

\* C9: check_compliance raises ValueError when the design text is empty or
\* None and when the regulation text is empty, before any extraction: no
\* result is produced.
C9_EmptyInputRaises ==
    (/\ checked.op = "check_compliance"
     /\ IsEmpty(designDoc) \/ requirementUnits[checked.unit] = <<>>) =>
        /\ checked.error = "ValueError"
        /\ checked.results = <<>>
        /\ checked.extractions = 0

C9_Witness ==
    /\ checked.op = "check_compliance"
    /\ ~IsEmpty(designDoc)
    /\ requirementUnits[checked.unit] = <<>>
    /\ checked.error = "ValueError"
    /\ checked.results = <<>>

\* C10: batch_compliance_check fails with an input error and no results on an
\* empty design text, whatever the units; on a non-empty design text and no
\* units it returns an empty sequence without error.
C10_BatchInputs ==
    checked.op = "batch_compliance_check" =>
        /\ IsEmpty(designDoc) =>
              checked.error = "ValueError" /\ checked.results = <<>>
        /\ (~IsEmpty(designDoc) /\ requirementUnits = <<>>) =>
              checked.error = "" /\ checked.results = <<>>

C10_Witness ==
    /\ checked.op = "batch_compliance_check"
    /\ IsEmpty(designDoc)
    /\ Len(requirementUnits) = MaxUnits
    /\ \A i \in 1..Len(requirementUnits) : requirementUnits[i] # <<>>
    /\ checked.error = "ValueError"
    /\ checked.results = <<>>

\* A unit from which no verdict can be drawn: its category is not recognised,
\* or no claim of its category can be extracted from it.
Undecidable(unit_text) ==
    \/ categorize(unit_text) \notin ThresholdCategories \cup {"material"}
    \/ ~extract(unit_text, categorize(unit_text)).present

\* C11: on a non-empty design text batch_compliance_check returns exactly one
\* result per requirement unit, in the order of the units, each on the full
\* design text; a unit of unrecognised category or with nothing extractable
\* gets the verdict Unknown and the other units still get their results.
C11_OneResultPerUnitInOrder ==
    (checked.op = "batch_compliance_check" /\ ~IsEmpty(designDoc)) =>
        /\ checked.error = ""
        /\ Len(checked.results) = Len(requirementUnits)
        /\ \A i \in 1..Len(requirementUnits) :
              /\ checked.results[i].regulation_text = requirementUnits[i]
              /\ checked.results[i].design_text = designDoc.text
              /\ Undecidable(requirementUnits[i]) =>
                    checked.results[i].compliance_status = "Unknown"
              /\ requirementUnits[i] # <<>> =>
                    checked.results[i].compliance_status =
                        check_compliance(designDoc, requirementUnits[i], i)
                            .results[1].compliance_status

C11_Witness ==
    /\ checked.op = "batch_compliance_check"
    /\ ~IsEmpty(designDoc)
    /\ Len(requirementUnits) = MaxUnits
    /\ Undecidable(requirementUnits[1])
    /\ ~Undecidable(requirementUnits[MaxUnits])
    /\ Len(checked.results) = MaxUnits
    /\ checked.results[1].compliance_status = "Unknown"
    /\ checked.results[MaxUnits].compliance_status = "Non-Compliant"

----------------------------------------------------------------------------
(* Document ingestion: DataIngestion of data_ingestion.py and the loading   *)
(* of the units by ComplianceChecker, as the specification describes them   *)
(* (4.1 Unitizer, 6 document loader and unit persistence) and as main()     *)
(* calls them.                                                              *)

UploadedFile(name, text) == [name |-> name, text |-> text]

\* save_uploaded_files of the regulatory file, then of the design file, into
\* one directory: under each name the text written last.
save_uploaded_files(regulatory_file, design_file) ==
    [name \in {regulatory_file.name, design_file.name} |->
        IF name = design_file.name THEN design_file.text ELSE regulatory_file.text]

\* 6: the document loader supplies the text of the file at the path.
text_from_file(saved, name) == saved[name]

\* White space between words beyond the single blank, or around them.
Space == Word(" ")

\* An article marker starts a unit.
IsMarker(token) == token.num = <<>> /\ token.s = "article"

\* The end of a sentence.
IsSentenceEnd(token) == token.num = <<>> /\ token.s = "."

\* The units that start at the given places of the text, in order.
UnitsFrom(text, starts) ==
    LET n      == Cardinality(starts)
        nth(k) == CHOOSE i \in starts : Cardinality({j \in starts : j < i}) = k - 1
    IN  [k \in 1..n |->
            [id   |-> k,
             text |-> SubSeq(text, nth(k), IF k = n THEN Len(text) ELSE nth(k + 1) - 1)]]

\* 4.1: text_to_semantic_units(document_text): an input error on an empty or
\* blank text, else the units between the article markers, or the sentences
\* when the text has no marker.
text_to_semantic_units(document_text) ==
    LET markers   == {i \in 1..Len(document_text) : IsMarker(document_text[i])}
        sentences == {i + 1 : i \in {j \in 1..(Len(document_text) - 1) :
                                        IsSentenceEnd(document_text[j])}}
    IN  IF \A i \in 1..Len(document_text) : document_text[i] = Space
        THEN [error |-> "ValueError", units |-> <<>>]
        ELSE [error |-> "",
              units |-> UnitsFrom(document_text,
                                  {1} \cup (IF markers # {} THEN markers ELSE sentences))]

\* json.dump of the units into semantic_units.json of the directory.
Dumped(semantic_units) == [exists |-> TRUE, units |-> semantic_units]

\* 6: ComplianceChecker(semantic_units_path=...): the texts of the units the
\* file holds, none when there is no such file.
LoadUnits(files, semantic_units_path) ==
    IF semantic_units_path \notin DOMAIN files \/ ~files[semantic_units_path].exists
    THEN <<>>
    ELSE [i \in 1..Len(files[semantic_units_path].units) |->
            files[semantic_units_path].units[i].text]

----------------------------------------------------------------------------
(* main() of src/app.py: the pages of a session and their buttons *)

\* A test of the question as typed, white space kept.
Strip_nothing(text) == text

\* str.strip(): the text without the white space around it.
RECURSIVE Strip(_)
Strip(text) ==
    IF text = <<>> THEN <<>>
    ELSE IF Head(text) = Space THEN Strip(Tail(text))
    ELSE IF text[Len(text)] = Space THEN Strip(SubSeq(text, 1, Len(text) - 1))
    ELSE text

\* time.strftime("%H:%M:%S") at the moment of a question.
Times == {"09:00:00", "09:00:01"}

ChatTurn(question_asked, response, timestamp) ==
    [question |-> question_asked, response |-> response, timestamp |-> timestamp]

\* A chat page that is open before the analysis.
CanChat_always(state) == TRUE

\* Line 292: the chat page asks for the analysis first.
CanChat(state) == state.analysis_complete

\* Line 230: the analysis page asks for processed documents first.
CanRunAnalysis(state) == state.processed

\* A call that empties the list of results it was handed.
ResultsAfterChat_consumed(compliance_results) ==
    IF compliance_results.none THEN compliance_results ELSE ResultList(<<>>)

\* Lines 64-112: the list st.session_state.results after the call: the call
\* reads the list and its records, and assigns to neither.
ResultsAfterChat(compliance_results) == compliance_results

\* The run of main() ends with the message, or the exception, on the page.
Shows(session, message) == page_shown' = [page_shown EXCEPT ![session] = message]

\* A processing that discards the results of the documents it replaces.
ProcessDocuments_invalidating(session, regulatory_file, design_file) ==
    LET state            == session_state[session]
        saved            == save_uploaded_files(regulatory_file, design_file)
        regulations_text == text_from_file(saved, regulatory_file.name)
        semantic_units   == text_to_semantic_units(regulations_text)
        design_text      == text_from_file(saved, design_file.name)
    IN  IF semantic_units.error # ""
        THEN /\ session_state' =
                    [session_state EXCEPT ![session].regulations_text = regulations_text]
             /\ Shows(session, semantic_units.error)
             /\ UNCHANGED temp_files
        ELSE /\ Shows(session, "Documents processed successfully!")
             /\ temp_files' =
                    [temp_files EXCEPT ![state.temp_dir] = Dumped(semantic_units.units)]
             /\ session_state' =
                    [session_state EXCEPT ![session] =
                        [state EXCEPT !.regulations_text = regulations_text,
                                      !.semantic_units_path = state.temp_dir,
                                      !.design_text = design_text,
                                      !.processed = TRUE,
                                      !.results = NoResults,
                                      !.analysis_complete = FALSE]]

\* "Process Documents" with both files uploaded (lines 200-224).  When the
\* units cannot be made the exception ends the run after regulations_text
\* was assigned.
ProcessDocuments(session, regulatory_file, design_file) ==
    LET state            == session_state[session]
        saved            == save_uploaded_files(regulatory_file, design_file)
        regulations_text == text_from_file(saved, regulatory_file.name)
        semantic_units   == text_to_semantic_units(regulations_text)
        design_text      == text_from_file(saved, design_file.name)
    IN  IF semantic_units.error # ""
        THEN /\ session_state' =
                    [session_state EXCEPT ![session].regulations_text = regulations_text]
             /\ Shows(session, semantic_units.error)
             /\ UNCHANGED temp_files
        ELSE /\ Shows(session, "Documents processed successfully!")
             /\ temp_files' =
                    [temp_files EXCEPT ![state.temp_dir] = Dumped(semantic_units.units)]
             /\ session_state' =
                    [session_state EXCEPT ![session] =
                        [state EXCEPT !.regulations_text = regulations_text,
                                      !.semantic_units_path = state.temp_dir,
                                      !.design_text = design_text,
                                      !.processed = TRUE]]

\* "Process Documents" with a file missing (lines 225-226): a message only.
ProcessNoDocuments(session) ==
    /\ Shows(session, "Please upload both a regulatory document and a design specification.")
    /\ UNCHANGED <<session_state, temp_files>>

\* An analysis that marks itself complete before it has the results.
RunAnalysis_flag_first(session) ==
    LET state == session_state[session]
        run   == batch_compliance_check(Doc(state.design_text),
                                        LoadUnits(temp_files, state.semantic_units_path))
    IN  /\ CanRunAnalysis(state)
        /\ session_state' =
              [session_state EXCEPT ![session] =
                  [state EXCEPT !.analysis_complete = TRUE,
                                !.results = IF run.error # "" THEN @
                                            ELSE ResultList(run.results)]]
        /\ Shows(session, IF run.error # "" THEN run.error ELSE "Analysis complete!")
        /\ UNCHANGED temp_files

\* "Start Compliance Check" (lines 228-247): the batch check of the design
\* text against the units of the file; an exception of the check ends the
\* run before results and analysis_complete are assigned.
RunAnalysis(session) ==
    LET state == session_state[session]
        run   == batch_compliance_check(Doc(state.design_text),
                                        LoadUnits(temp_files, state.semantic_units_path))
    IN  /\ CanRunAnalysis(state)
        /\ session_state' =
              IF run.error # "" THEN session_state
              ELSE [session_state EXCEPT ![session] =
                      [state EXCEPT !.results = ResultList(run.results),
                                    !.analysis_complete = TRUE]]
        /\ Shows(session, IF run.error # "" THEN run.error ELSE "Analysis complete!")
        /\ UNCHANGED temp_files

\* The page "3. View Results" (lines 249-287) shows the results.
ViewResults(session) ==
    /\ session_state[session].analysis_complete
    /\ Shows(session, "Analysis Results")
    /\ UNCHANGED <<session_state, temp_files>>

\* "Ask Question" (lines 309-329): a blank question gets a message only; an
\* exception of chat_with_documents ends the run before the turn is appended.
AskQuestion(session, user_question, timestamp) ==
    LET state    == session_state[session]
        response == chat_with_documents(user_question, state.design_text,
                                        state.regulations_text, state.results, reLoaded)
    IN  /\ CanChat(state)
        /\ Len(state.chat_history) < MaxTurns
        /\ IF Strip(user_question) = <<>>
           THEN /\ Shows(session, "Please enter a question.")
                /\ UNCHANGED <<session_state, reLoaded>>
           ELSE /\ reLoaded' = LoadedAfter(state.results, reLoaded)
                /\ Shows(session, IF response.kind = "response"
                                   THEN "Response generated!" ELSE response.template)
                /\ session_state' =
                      [session_state EXCEPT ![session] =
                          [state EXCEPT
                              !.results = ResultsAfterChat(@),
                              !.chat_history =
                                  IF response.kind = "response"
                                  THEN Append(@, ChatTurn(user_question, response, timestamp))
                                  ELSE @]]
        /\ UNCHANGED temp_files

\* "Clear Chat History" (lines 340-342).
ClearChatHistory(session) ==
    /\ CanChat(session_state[session])
    /\ session_state' = [session_state EXCEPT ![session].chat_history = <<>>]
    /\ Shows(session, "Chat history cleared!")
    /\ UNCHANGED temp_files

----------------------------------------------------------------------------
(* The files the users upload and the questions they ask *)

RegulatoryFiles ==
    { \* two articles: insulation, then seismic
      UploadedFile("regulations.txt",
          <<CapWord("article"), Word("insulation"), Word("thickness"), NumSp(<<"5", "0">>, "mm"),
            CapWord("article"), Word("seismic"), Num(<<"0", ".", "3", "5">>, "g")>>),
      \* two sentences without a marker: the emergency supply, then the pumps
      UploadedFile("rules.txt",
          <<Word("emergency"), NumSp(<<"7", "2">>, "hours"), Word("."),
            Word("containment"), Word("three"), Word("independent"), Word("pumps")>>),
      UploadedFile("empty.txt", <<>>) }

DesignFiles ==
    { UploadedFile("design.txt",
          <<Word("insulation"), Word("thickness"), Num(<<"4", "5">>, "mm"),
            Word("seismic"), Num(<<"0", ".", "2", "5">>, "g"),
            CapWord("emergency"), NumSp(<<"9", "6">>, "hours")>>),
      \* a design file with the name of the regulatory file
      UploadedFile("regulations.txt",
          <<Word("insulation"), Word("thickness"), Num(<<"5", "5">>, "mm")>>),
      UploadedFile("empty.txt", <<>>) }

UserQuestions ==
    { <<Word("hello")>>,
      <<CapWord("thickness"), Space>>,
      <<Space>>,
      <<>> }

----------------------------------------------------------------------------
(* The sessions of the application *)

Init ==
    /\ question = <<>>
    /\ batch = NoResults
    /\ reLoaded \in BOOLEAN
    /\ first = NoCall
    /\ outcome = NoCall
    /\ between = "none"
    /\ CheckerIdle
    /\ BenchIdle
    /\ AppIdle

Frame == UNCHANGED <<question, batch, first, outcome, between, checkerVars, benchVars>>

\* What the users of the sessions at work can do: the buttons of the pages,
\* with the files and the questions at hand.
NextApp(at_work, uploads, questions) ==
    \/ \E session \in at_work, regulatory_file \in uploads.regulatory,
          design_file \in uploads.design :
          ProcessDocuments(session, regulatory_file, design_file)
          /\ UNCHANGED reLoaded /\ Frame
    \/ \E session \in at_work : ProcessNoDocuments(session) /\ UNCHANGED reLoaded /\ Frame
    \/ \E session \in at_work : RunAnalysis(session) /\ UNCHANGED reLoaded /\ Frame
    \/ \E session \in at_work : ViewResults(session) /\ UNCHANGED reLoaded /\ Frame
    \/ \E session \in at_work, user_question \in questions, timestamp \in Times :
          AskQuestion(session, user_question, timestamp) /\ Frame
    \/ \E session \in at_work : ClearChatHistory(session) /\ UNCHANGED reLoaded /\ Frame

\* One user at work, the other session open.
Next ==
    NextApp({"s1"}, [regulatory |-> RegulatoryFiles, design |-> DesignFiles], UserQuestions)

Spec == Init /\ [][Next]_vars

\* The two files the users of concurrent sessions upload for the regulations,
\* and the one design.
SharedUploads ==
    [regulatory |-> {file \in RegulatoryFiles : file.text # <<>>},
     design     |-> {file \in DesignFiles : file.name = "design.txt"}]

\* Both users at work, their actions interleaved.
NextSessions ==
    NextApp(Sessions, SharedUploads, {<<CapWord("thickness"), Space>>, <<Space>>})

SpecSessions == Init /\ [][NextSessions]_vars

----------------------------------------------------------------------------
(* Properties of the sessions (checked under Spec and SpecSessions) *)

History(session) == session_state[session].chat_history

\* The step is "Ask Question" with the question, in the session.
Asked(session, user_question) ==
    \E timestamp \in Times : AskQuestion(session, user_question, timestamp)

IsPrefix(old, new) == Len(old) <= Len(new) /\ SubSeq(new, 1, Len(old)) = old

\* What the responder makes of the question on the session's current results.
ResponseNow(session, user_question) ==
    chat_with_documents(user_question, session_state[session].design_text,
                        session_state[session].regulations_text,
                        session_state[session].results, reLoaded)

\* C12: the chat history is append-only: asking a non-blank question appends
\* exactly one turn, with that question and the response computed from the
\* session's current results; every step other than "Clear Chat History"
\* leaves the turns it finds as a prefix, processing and analysis leave the
\* history as it is, and only the clearing empties it.
C12_AppendOnly ==
    [][\A session \in Sessions :
          /\ \A user_question \in UserQuestions :
                (Strip(user_question) # <<>> /\ Asked(session, user_question)) =>
                    \E timestamp \in Times :
                        History(session)' =
                            Append(History(session),
                                   ChatTurn(user_question,
                                            ResponseNow(session, user_question),
                                            timestamp))
          /\ ClearChatHistory(session) \/ IsPrefix(History(session), History(session)')
          /\ History(session)' # History(session) =>
                \/ ClearChatHistory(session)
                \/ \E user_question \in UserQuestions : Asked(session, user_question)]_vars

\* The part of C12 that does not rest on the call returning: the turns are
\* kept as a prefix by every step but the clearing, a turn is appended only
\* by a question that is not blank and holds that question and its response.
C12_TurnsKept ==
    [][\A session \in Sessions :
          /\ ClearChatHistory(session) \/ IsPrefix(History(session), History(session)')
          /\ History(session)' # History(session) =>
                \/ ClearChatHistory(session)
                \/ \E user_question \in UserQuestions, timestamp \in Times :
                      /\ Strip(user_question) # <<>>
                      /\ AskQuestion(session, user_question, timestamp)
                      /\ History(session)' =
                            Append(History(session),
                                   ChatTurn(user_question,
                                            ResponseNow(session, user_question),
                                            timestamp))]_vars

\* The file the session's analysis reads its units from.
UnitsFile(session) == temp_files[session_state[session].temp_dir]

\* C13: with the actions of two sessions interleaved, every step is the step
\* of one session and leaves the other session's flags, texts, results and
\* chat history, the page it shows and the units its analysis reads as
\* they were.
C13_SessionsIsolated ==
    [][\E actor \in Sessions :
          \A other \in Sessions \ {actor} :
              /\ session_state'[other] = session_state[other]
              /\ page_shown'[other] = page_shown[other]
              /\ UnitsFile(other)' = UnitsFile(other)]_vars

C13_Witness ==
    /\ session_state["s1"].analysis_complete
    /\ session_state["s2"].analysis_complete
    /\ session_state["s1"].results # session_state["s2"].results
    /\ session_state["s1"].regulations_text # session_state["s2"].regulations_text
    /\ Len(History("s1")) = MaxTurns
    /\ History("s2") = <<>>
    /\ page_shown["s2"] = "UnboundLocalError"
    /\ page_shown["s1"] = "Chat history cleared!" \/ page_shown["s1"] = "Response generated!"

\* C14: a question leaves what chat_with_documents is handed as it was: the
\* session's results (the same records in the same order), its design text
\* and its regulations text; the chat history changes by the turn main()
\* appends after the call, and by nothing else.
C14_QuestionChangesNothing ==
    [][\A session \in Sessions, user_question \in UserQuestions :
          Asked(session, user_question) =>
              /\ session_state'[session].results = session_state[session].results
              /\ session_state'[session].design_text = session_state[session].design_text
              /\ session_state'[session].regulations_text =
                    session_state[session].regulations_text
              /\ \/ History(session)' = History(session)
                 \/ /\ Len(History(session)') = Len(History(session)) + 1
                    /\ IsPrefix(History(session), History(session)')]_vars

C14_Witness ==
    /\ page_shown["s1"] = "Response generated!"
    /\ Len(session_state["s1"].results.items) = 2
    /\ Len(History("s1")) = 1
    /\ History("s1")[1].response.template = "insulation"
    /\ History("s1")[1].response.design = <<"4", "5">>

\* C19: in every state of a session analysis_complete implies processed and
\* results that are not None; and no step sets processed or
\* analysis_complete back to False.
C19_FlagsOrderedAndKept ==
    /\ [](\A session \in Sessions :
            session_state[session].analysis_complete =>
                /\ session_state[session].processed
                /\ ~session_state[session].results.none)
    /\ [][\A session \in Sessions :
            /\ session_state[session].processed => session_state'[session].processed
            /\ session_state[session].analysis_complete =>
                  session_state'[session].analysis_complete]_vars

\* The analysis is complete, and the documents processed after it do not
\* let a second analysis complete.
C19_Witness ==
    /\ session_state["s1"].analysis_complete
    /\ session_state["s1"].processed
    /\ session_state["s1"].design_text = <<>>
    /\ session_state["s1"].results.items # <<>>
    /\ page_shown["s1"] = "ValueError"

\* C20: a session is processed before it is analysed and analysed before it
\* chats: a chat history that is not empty implies analysis_complete, a turn
\* is recorded only in a session whose analysis is complete and holds the
\* response computed from its results, which are not None, and the results
\* change only in a session whose documents are processed.
C20_ProcessAnalyseChat ==
    /\ [](\A session \in Sessions :
            History(session) # <<>> => session_state[session].analysis_complete)
    /\ [][\A session \in Sessions :
            /\ Len(History(session)') > Len(History(session)) =>
                  /\ session_state[session].analysis_complete
                  /\ ~session_state[session].results.none
                  /\ \E user_question \in UserQuestions :
                        /\ History(session)'[Len(History(session)')].question = user_question
                        /\ History(session)'[Len(History(session)')].response =
                              ResponseNow(session, user_question)
            /\ session_state'[session].results # session_state[session].results =>
                  session_state[session].processed]_vars

C20_Witness ==
    /\ Len(History("s1")) = MaxTurns
    /\ History("s1")[1].response.template = "help"
    /\ History("s1")[MaxTurns].response.template = "insulation"
    /\ session_state["s1"].analysis_complete
    /\ session_state["s1"].processed

----------------------------------------------------------------------------
(* The benchmark harness: CAELUSBenchmark of src/benchmark.py and of        *)
(* src/benchmark_fixed.py.  A dict is a record; a dict without a key is a   *)
(* record without the field.                                                *)

\* dict.get(key, default)
Get(dict, key, default) == IF key \in DOMAIN dict THEN dict[key] ELSE default

TestCase(id, name, category, expected_status) ==
    [id |-> id, name |-> name, category |-> category,
     expected_status |-> expected_status]

\* _load_test_cases of benchmark.py: TC001 to TC006.
test_cases ==
    << TestCase("TC001", "Insulation Thickness Compliance",
                "material_specifications", "Non-Compliant"),
       TestCase("TC002", "Seismic Resistance Compliance",
                "safety_requirements", "Non-Compliant"),
       TestCase("TC003", "Emergency Power Duration Compliance",
                "emergency_systems", "Compliant"),
       TestCase("TC004", "Containment Pump Count Compliance",
                "safety_systems", "Non-Compliant"),
       TestCase("TC005", "Pipe Wall Thickness Compliance",
                "structural_requirements", "Non-Compliant"),
       TestCase("TC006", "Material Specification Compliance",
                "material_specifications", "Compliant") >>

\* _load_test_cases of benchmark_fixed.py: the first of them, TC001 to TC003.
test_cases_fixed ==
    SelectSeq(test_cases, LAMBDA test_case : test_case.id \in {"TC001", "TC002", "TC003"})

\* What check_compliance does on a test case: it returns a dict, with or
\* without a compliance_status, or it raises.
Returns(result) == [raises |-> FALSE, result |-> result, error |-> ""]

Raises(error) == [raises |-> TRUE, result |-> <<>>, error |-> error]

CheckOutcomes ==
    {Returns([compliance_status |-> status, reasoning |-> ""]) :
        status \in {"Compliant", "Non-Compliant", "Unknown"}}
    \cup {Returns([reasoning |-> ""]), Raises("ValueError")}

\* A harness that takes a result without a status for the expected one.
case_result_lenient(test_case, checked_case) ==
    IF checked_case.raises
    THEN [test_case_id   |-> test_case.id,
          test_case_name |-> test_case.name,
          category       |-> test_case.category,
          error          |-> checked_case.error,
          is_correct     |-> FALSE]
    ELSE LET actual_status ==
                 Get(checked_case.result, "compliance_status", test_case.expected_status)
         IN  [test_case_id    |-> test_case.id,
              test_case_name  |-> test_case.name,
              category        |-> test_case.category,
              expected_status |-> test_case.expected_status,
              actual_status   |-> actual_status,
              is_correct      |-> actual_status = test_case.expected_status]

\* Lines 148-190 of benchmark.py, 77-114 of benchmark_fixed.py: the record of
\* one test case, of the result of the check or of its exception.
case_result(test_case, checked_case) ==
    IF checked_case.raises
    THEN [test_case_id   |-> test_case.id,
          test_case_name |-> test_case.name,
          category       |-> test_case.category,
          error          |-> checked_case.error,
          is_correct     |-> FALSE]
    ELSE LET actual_status == Get(checked_case.result, "compliance_status", "Unknown")
         IN  [test_case_id    |-> test_case.id,
              test_case_name  |-> test_case.name,
              category        |-> test_case.category,
              expected_status |-> test_case.expected_status,
              actual_status   |-> actual_status,
              is_correct      |-> actual_status = test_case.expected_status]

RECURSIVE GCD(_, _)
GCD(a, b) == IF b = 0 THEN a ELSE GCD(b, a % b)

\* The number num / den, in lowest terms.
Fraction(num, den) == [num |-> num \div GCD(num, den), den |-> den \div GCD(num, den)]

\* (correct / total * 100) if total > 0 else 0
Percentage(correct, total) ==
    IF total > 0 THEN Fraction(correct * 100, total) ELSE Fraction(0, 1)

IsCorrect(case) == Get(case, "is_correct", FALSE)

\* sum(1 for case in test_cases if case.get("is_correct", False))
correct_cases(cases) == Cardinality({i \in 1..Len(cases) : IsCorrect(cases[i])})

\* A status breakdown that counts the records that have an actual status.
status_distribution_of_checked(cases) ==
    LET statuses == {cases[i].actual_status :
                        i \in {j \in 1..Len(cases) : "actual_status" \in DOMAIN cases[j]}}
    IN  [status \in statuses |->
            Cardinality({i \in 1..Len(cases) : Get(cases[i], "actual_status", "") = status})]

\* Lines 230-234: the cases of every actual status, Unknown for a record
\* without one.
status_distribution(cases) ==
    LET statuses == {Get(cases[i], "actual_status", "Unknown") : i \in 1..Len(cases)}
    IN  [status \in statuses |->
            Cardinality({i \in 1..Len(cases) :
                            Get(cases[i], "actual_status", "Unknown") = status})]

\* Lines 213-228: total, correct and accuracy of every category.
category_performance(cases) ==
    LET categories == {Get(cases[i], "category", "unknown") : i \in 1..Len(cases)}
    IN  [category \in categories |->
            LET members == {i \in 1..Len(cases) :
                                Get(cases[i], "category", "unknown") = category}
                total   == Cardinality(members)
                correct == Cardinality({i \in members : IsCorrect(cases[i])})
            IN  [total |-> total, correct |-> correct,
                 accuracy |-> Percentage(correct, total)]]

\* _calculate_summary_metrics(test_cases) of benchmark.py
_calculate_summary_metrics(cases) ==
    [total_test_cases     |-> Len(cases),
     correct_predictions  |-> correct_cases(cases),
     overall_accuracy     |-> Percentage(correct_cases(cases), Len(cases)),
     category_performance |-> category_performance(cases),
     status_distribution  |-> status_distribution(cases)]

\* Lines 118-128 of benchmark_fixed.py: the summary of its run.
summary_fixed(cases) ==
    [total_test_cases    |-> Len(cases),
     correct_predictions |-> correct_cases(cases),
     overall_accuracy    |-> Percentage(correct_cases(cases), Len(cases))]

\* A loop that ends with the first check that raises.
RunCases_stopping(cases) ==
    LET raising == {i \in 1..Len(cases) : compliance_checker[i].raises}
        last    == IF raising = {} THEN Len(cases)
                   ELSE CHOOSE i \in raising : \A j \in raising : i <= j
    IN  [i \in 1..last |-> case_result(cases[i], compliance_checker[i])]

\* The loop over the test cases: one record per case, in order.
RunCases(cases) ==
    [i \in 1..Len(cases) |-> case_result(cases[i], compliance_checker[i])]

Ran(op, cases, summary) ==
    [op |-> op, error |-> "", test_cases |-> cases, summary |-> summary]

\* run_compliance_benchmark(compliance_checker) of benchmark.py
RunComplianceBenchmark ==
    /\ benchmark_results' =
          Ran("benchmark", RunCases(test_cases),
              _calculate_summary_metrics(RunCases(test_cases)))
    /\ benchmark_report' = NoReport
    /\ UNCHANGED compliance_checker

\* run_compliance_benchmark(compliance_checker) of benchmark_fixed.py
RunFixedBenchmark ==
    /\ benchmark_results' =
          Ran("benchmark_fixed", RunCases(test_cases_fixed),
              summary_fixed(RunCases(test_cases_fixed)))
    /\ benchmark_report' = NoReport
    /\ UNCHANGED compliance_checker

\* A record that has the id of the case and nothing else.
Bare(case) == [test_case_id |-> case.test_case_id]

\* _calculate_summary_metrics on a list of records: the first records of a
\* run, as they are or each with its id only.
CalculateSummaryMetrics(count, bare) ==
    LET given == SubSeq(benchmark_results.test_cases, 1, count)
        cases == IF bare THEN [i \in 1..count |-> Bare(given[i])] ELSE given
    IN  /\ benchmark_results.op = "benchmark"
        /\ benchmark_results' = Ran("summary", cases, _calculate_summary_metrics(cases))
        /\ benchmark_report' = NoReport
        /\ UNCHANGED compliance_checker

\* The keys of a case record the table of the report reads with case[key], in
\* the order it reads them (benchmark.py 391-394, benchmark_fixed.py 214-217).
CaseFieldsRead == <<"test_case_name", "category", "expected_status", "actual_status">>

\* _generate_html_report(compliance_results): the figures of the summary,
\* then one row per case record, in order; the first key a record does not
\* have raises KeyError.
_generate_html_report(compliance_results) ==
    LET cases         == compliance_results.test_cases
        Missing(case) == {k \in 1..Len(CaseFieldsRead) : CaseFieldsRead[k] \notin DOMAIN case}
        incomplete    == {i \in 1..Len(cases) : Missing(cases[i]) # {}}
    IN  IF incomplete = {}
        THEN [op      |-> "report",
              raises  |-> FALSE,
              error   |-> "",
              key     |-> "",
              summary |-> [overall_accuracy    |-> compliance_results.summary.overall_accuracy,
                           total_test_cases    |-> compliance_results.summary.total_test_cases,
                           correct_predictions |-> compliance_results.summary.correct_predictions],
              rows    |-> [i \in 1..Len(cases) |->
                             [k \in 1..Len(CaseFieldsRead) + 1 |->
                                 IF k <= Len(CaseFieldsRead)
                                 THEN cases[i][CaseFieldsRead[k]]
                                 ELSE IF IsCorrect(cases[i]) THEN "PASS" ELSE "FAIL"]]]
        ELSE LET i == CHOOSE i \in incomplete : \A j \in incomplete : i <= j
                 k == CHOOSE k \in Missing(cases[i]) : \A l \in Missing(cases[i]) : k <= l
             IN  [op |-> "report", raises |-> TRUE, error |-> "KeyError",
                  key |-> CaseFieldsRead[k], summary |-> <<>>, rows |-> <<>>]

\* generate_benchmark_report(compliance_results) on the result of a run
\* (benchmark.py 301-332, benchmark_fixed.py 133-152; main() calls it on
\* what run_compliance_benchmark returned).
GenerateBenchmarkReport ==
    /\ benchmark_results.op \in {"benchmark", "benchmark_fixed"}
    /\ benchmark_report' = _generate_html_report(benchmark_results)
    /\ UNCHANGED <<compliance_checker, benchmark_results>>

InitBench ==
    /\ ChatIdle
    /\ CheckerIdle
    /\ AppIdle
    /\ compliance_checker \in [1..Len(test_cases) -> CheckOutcomes]
    /\ benchmark_results = NotRun
    /\ benchmark_report = NoReport

NextBench ==
    \/ RunComplianceBenchmark /\ UNCHANGED <<chatVars, checkerVars, appVars>>
    \/ GenerateBenchmarkReport /\ UNCHANGED <<chatVars, checkerVars, appVars>>
    \/ RunFixedBenchmark /\ UNCHANGED <<chatVars, checkerVars, appVars>>
    \/ \E count \in 0..Len(test_cases), bare \in BOOLEAN :
          CalculateSummaryMetrics(count, bare) /\ UNCHANGED <<chatVars, checkerVars, appVars>>

SpecBench == InitBench /\ [][NextBench]_vars

----------------------------------------------------------------------------
(* Properties of the benchmark harness (checked under SpecBench) *)

Records == benchmark_results.test_cases

Summary == benchmark_results.summary

\* The test cases of the harness that ran.
CasesRun == IF benchmark_results.op = "benchmark_fixed" THEN test_cases_fixed ELSE test_cases

\* The records of the category, and those of them marked correct.
RecordsIn(category) == {i \in 1..Len(Records) : Records[i].category = category}

CorrectIn(category) == {i \in RecordsIn(category) : Records[i].is_correct}

\* value = num / den * 100
IsPercentage(value, num, den) == value.num * den = 100 * num * value.den

\* C15: a run marks a case correct exactly when the compliance_status of the
\* result equals the expected_status of the test case, a result without a
\* compliance_status counting as Unknown (and a check that raises as not
\* correct); the accuracy of each category is correct / total * 100 over the
\* records of exactly that category.
C15_CorrectIffExpectedStatus ==
    /\ benchmark_results.op \in {"benchmark", "benchmark_fixed"} =>
          /\ Len(Records) = Len(CasesRun)
          /\ \A i \in 1..Len(Records) :
                /\ Records[i].test_case_id = CasesRun[i].id
                /\ Records[i].category = CasesRun[i].category
                /\ Records[i].is_correct <=>
                      /\ ~compliance_checker[i].raises
                      /\ CasesRun[i].expected_status =
                            IF "compliance_status" \in DOMAIN compliance_checker[i].result
                            THEN compliance_checker[i].result.compliance_status
                            ELSE "Unknown"
    /\ benchmark_results.op = "benchmark" =>
          /\ DOMAIN Summary.category_performance = {Records[i].category : i \in 1..Len(Records)}
          /\ \A category \in DOMAIN Summary.category_performance :
                LET performance == Summary.category_performance[category]
                IN  /\ performance.total = Cardinality(RecordsIn(category))
                    /\ performance.correct = Cardinality(CorrectIn(category))
                    /\ IsPercentage(performance.accuracy, Cardinality(CorrectIn(category)),
                                    Cardinality(RecordsIn(category)))

\* TC001 gets a result without a status, TC006 the expected status: one of
\* the two records of material_specifications is correct.
C15_Witness ==
    /\ benchmark_results.op = "benchmark"
    /\ ~compliance_checker[1].raises
    /\ "compliance_status" \notin DOMAIN compliance_checker[1].result
    /\ ~Records[1].is_correct
    /\ Records[1].actual_status = "Unknown"
    /\ Records[Len(Records)].is_correct
    /\ Summary.category_performance["material_specifications"].total = 2
    /\ Summary.category_performance["material_specifications"].accuracy = Fraction(50, 1)
    /\ Summary.overall_accuracy # Fraction(50, 1)

RECURSIVE SumOver(_, _)
\* The sum of the numbers a dict holds under the keys.
SumOver(counts, keys) ==
    IF keys = {} THEN 0
    ELSE LET key == CHOOSE k \in keys : TRUE
         IN  counts[key] + SumOver(counts, keys \ {key})

\* C18: in the summary of _calculate_summary_metrics correct_predictions is at
\* most total_test_cases, the totals of the categories sum to
\* total_test_cases and their corrects to correct_predictions, the counts of
\* status_distribution sum to total_test_cases, and overall_accuracy is
\* correct_predictions / total_test_cases * 100, and 0 for an empty list.
C18_SummaryAddsUp ==
    benchmark_results.op \in {"benchmark", "summary"} =>
        LET categories == DOMAIN Summary.category_performance
        IN  /\ Summary.total_test_cases = Len(Records)
            /\ Summary.correct_predictions <= Summary.total_test_cases
            /\ SumOver([category \in categories |->
                            Summary.category_performance[category].total], categories)
                  = Summary.total_test_cases
            /\ SumOver([category \in categories |->
                            Summary.category_performance[category].correct], categories)
                  = Summary.correct_predictions
            /\ SumOver(Summary.status_distribution, DOMAIN Summary.status_distribution)
                  = Summary.total_test_cases
            /\ IF Records = <<>>
               THEN Summary.overall_accuracy = Fraction(0, 1)
               ELSE IsPercentage(Summary.overall_accuracy, Summary.correct_predictions,
                                 Summary.total_test_cases)

\* A summary over records of which one is of a check that raised and one of a
\* result without a status: both count as Unknown.
C18_Witness ==
    /\ benchmark_results.op = "summary"
    /\ Len(Records) = Len(test_cases_fixed)
    /\ "error" \in DOMAIN Records[1]
    /\ Get(Records[2], "actual_status", "") = "Unknown"
    /\ Records[3].is_correct
    /\ DOMAIN Summary.status_distribution = {"Unknown", "Compliant"}
    /\ Summary.status_distribution["Unknown"] = 2
    /\ Summary.correct_predictions = 1
    /\ Summary.overall_accuracy = Fraction(100, 3)

\* The summary of the empty list.
EmptySummary ==
    /\ benchmark_results.op = "summary"
    /\ Records = <<>>
    /\ Summary.overall_accuracy = Fraction(0, 1)

----------------------------------------------------------------------------
(* Properties of the scan of the stored results (checked under SpecChat) *)

\* The topics of the scan in the order of their priority, each with the words
\* the regulation text of a result has to contain, all of them.
ScanTopics ==
    << [topic |-> "insulation", words |-> {"insulation", "thickness"}],
       [topic |-> "seismic", words |-> {"seismic"}],
       [topic |-> "emergency", words |-> {"hours", "emergency"}],
       [topic |-> "pumps", words |-> {"pumps", "containment"}] >>

\* The topics the regulation text of the i-th result matches.
TopicsMatched(i) ==
    {t \in 1..Len(ScanTopics) :
        \A w \in ScanTopics[t].words : Contains(Lower(batch.items[i].regulation_text), w)}

\* The i-th result matches the topic and no topic of higher priority.
Feeds(i, topic) ==
    \E t \in TopicsMatched(i) :
        /\ ScanTopics[t].topic = topic
        /\ \A u \in TopicsMatched(i) : t <= u

\* The results that feed the topic with a value of the side.
Feeding(topic, side) ==
    {i \in 1..Len(batch.items) :
        Feeds(i, topic) /\ Search(topic, Lower(batch.items[i][side])) # <<>>}

\* The value the response of the topic is due on the side: that of the last
\* result that feeds the topic with one, N/A when there is none.
Fed(topic, side) ==
    IF Feeding(topic, side) = {} THEN NA
    ELSE Search(topic, Lower(batch.items[CHOOSE i \in Feeding(topic, side) :
                                            \A j \in Feeding(topic, side) : i >= j][side]))

\* C16: a stored result feeds at most one topic, the first one its regulation
\* text matches in the order insulation, seismic, emergency, pumps: the
\* values a response reports, the design-side one too, are those of results
\* whose regulation text matches the topic and no earlier one.
C16_FirstMatchingTopicFed ==
    /\ \A i \in 1..Len(batch.items) :
          Cardinality({topic \in ValueTopics : Feeds(i, topic)}) <= 1
    /\ (Returned /\ Out.template \in ValueTopics) =>
          /\ Out.design = Fed(Out.template, "design_text")
          /\ Out.required = Fed(Out.template, "regulation_text")

\* A question on the seismic load over a batch whose only seismic figures
\* stand in a result that feeds insulation: both slots read N/A.
C16_Witness ==
    /\ Returned
    /\ Out.template = "seismic"
    /\ \E i \in 1..Len(batch.items) :
          /\ Cardinality(TopicsMatched(i)) = 2
          /\ Feeds(i, "insulation")
          /\ SearchDecimalG(Lower(batch.items[i].regulation_text)) # <<>>
          /\ SearchDecimalG(Lower(batch.items[i].design_text)) # <<>>
    /\ Out.design = NA
    /\ Out.required = NA

\* The thickness the design text states for the insulation: the mm figure
\* right after the words insulation thickness; <<>> when it states none.
StatedInsulationThickness(text) ==
    LET t    == Lower(text)
        hits == {i \in 3..Len(t) :
                    /\ t[i - 2].s = "insulation" /\ t[i - 2].num = <<>>
                    /\ t[i - 1].s = "thickness" /\ t[i - 1].num = <<>>
                    /\ t[i].s = "mm"
                    /\ TrailingDigits(t[i].num) # <<>>}
    IN  IF hits = {} THEN <<>>
        ELSE TrailingDigits(t[CHOOSE h \in hits : \A j \in hits : h <= j].num)

\* C17: the design thickness of the insulation response is the thickness the
\* design text states for the insulation, not an mm figure the text states
\* earlier on something else (a pipe wall thickness).
C17_InsulationFigureReported ==
    (/\ Returned
     /\ Out.template = "insulation"
     /\ Feeding("insulation", "design_text") # {}) =>
        LET last == CHOOSE i \in Feeding("insulation", "design_text") :
                        \A j \in Feeding("insulation", "design_text") : i >= j
            stated == StatedInsulationThickness(batch.items[last].design_text)
        IN  stated # <<>> => Out.design = stated

----------------------------------------------------------------------------
(* Properties of processing again and of the blank question (checked under  *)
(* Spec)                                                                    *)

\* The text main() reads back for the regulations: that of the regulatory
\* file, or of the design file when it was saved under the same name.
RegulationsRead(regulatory_file, design_file) ==
    IF regulatory_file.name = design_file.name THEN design_file.text
    ELSE regulatory_file.text

\* The questions at hand on a topic that reports values of the batch.
TopicQuestions == {q \in UserQuestions : EarliestGroup(q) \in ValueTopics}

\* C21: "Process Documents" in a session whose analysis is complete leaves
\* results, analysis_complete and chat_history as they are, so a question on
\* a topic is answered as before, from the batch of the previous documents; when it
\* ends with its success message it has replaced regulations_text,
\* design_text and semantic_units_path.
C21_ProcessingKeepsResults ==
    [][\A session \in Sessions, regulatory_file \in RegulatoryFiles,
          design_file \in DesignFiles :
          (/\ session_state[session].analysis_complete
           /\ ProcessDocuments(session, regulatory_file, design_file)) =>
              /\ session_state'[session].results = session_state[session].results
              /\ session_state'[session].analysis_complete
              /\ History(session)' = History(session)
              /\ \A user_question \in TopicQuestions :
                    chat_with_documents(user_question,
                                        session_state'[session].design_text,
                                        session_state'[session].regulations_text,
                                        session_state'[session].results, reLoaded')
                        = ResponseNow(session, user_question)
              /\ page_shown'[session] = "Documents processed successfully!" =>
                    /\ session_state'[session].regulations_text =
                          RegulationsRead(regulatory_file, design_file)
                    /\ session_state'[session].design_text = design_file.text
                    /\ session_state'[session].semantic_units_path =
                          session_state[session].temp_dir]_vars

\* Documents processed after the analysis and after a question: the results
\* are still those of the design text that was replaced.
C21_Witness ==
    /\ page_shown["s1"] = "Documents processed successfully!"
    /\ session_state["s1"].analysis_complete
    /\ session_state["s1"].results.items # <<>>
    /\ session_state["s1"].results.items[1].design_text # session_state["s1"].design_text
    /\ session_state["s1"].results.items[1].regulation_text
          # text_to_semantic_units(session_state["s1"].regulations_text).units[1].text
    /\ History("s1") # <<>>

\* A question of white space only, or of nothing.
IsBlank(user_question) ==
    \A i \in 1..Len(user_question) : user_question[i] = Space

\* C22: "Ask Question" with an empty or whitespace-only question appends no
\* turn and computes no response: the session fields of every session, the
\* saved files and the loaded modules are unchanged, and the page shows the
\* error notice only.
C22_BlankQuestionChangesNothing ==
    [][\A session \in Sessions, user_question \in UserQuestions :
          (IsBlank(user_question) /\ Asked(session, user_question)) =>
              /\ session_state' = session_state
              /\ temp_files' = temp_files
              /\ reLoaded' = reLoaded
              /\ page_shown' = [page_shown EXCEPT ![session] = "Please enter a question."]]_vars

\* The notice of a blank question in a session that has a turn recorded.
C22_Witness ==
    /\ page_shown["s1"] = "Please enter a question."
    /\ session_state["s1"].analysis_complete
    /\ History("s1") # <<>>

\* The cases of the run whose check raised, and those whose check returned
\* the expected status.
RaisedIn(indices) == {i \in indices : compliance_checker[i].raises}

ExpectedIn(indices) ==
    {i \in indices :
        /\ ~compliance_checker[i].raises
        /\ Get(compliance_checker[i].result, "compliance_status", "Unknown")
              = CasesRun[i].expected_status}

\* The cases of the run counted under the status Unknown: a check that
\* raised, a result without a status, a result of status Unknown.
UnknownIn(indices) ==
    {i \in indices :
        \/ compliance_checker[i].raises
        \/ Get(compliance_checker[i].result, "compliance_status", "Unknown") = "Unknown"}

\* C23: a run makes one record per test case, in the order of the test
\* cases, whichever checks raise: the record of a check that raised has
\* is_correct FALSE, the cases after it have the records of their own
\* checks, and the raising cases count in the totals but not in the corrects
\* of the overall and of the per-category accuracy, and under Unknown in the
\* status distribution.
C23_OneRecordPerCaseThoughRaising ==
    benchmark_results.op \in {"benchmark", "benchmark_fixed"} =>
        LET ran == 1..Len(CasesRun)
        IN  /\ DOMAIN Records = ran
            /\ \A i \in ran :
                  /\ Records[i].test_case_id = CasesRun[i].id
                  /\ IF compliance_checker[i].raises
                     THEN /\ Records[i].is_correct = FALSE
                          /\ Records[i].error = compliance_checker[i].error
                     ELSE /\ "error" \notin DOMAIN Records[i]
                          /\ Records[i].actual_status =
                                Get(compliance_checker[i].result,
                                    "compliance_status", "Unknown")
            /\ Summary.total_test_cases = Len(CasesRun)
            /\ Summary.correct_predictions = Cardinality(ExpectedIn(ran))
            /\ IsPercentage(Summary.overall_accuracy,
                            Cardinality(ExpectedIn(ran)), Len(CasesRun))
            /\ benchmark_results.op = "benchmark" =>
                  /\ \A i \in ran :
                        LET members     == {j \in ran : CasesRun[j].category
                                                          = CasesRun[i].category}
                            performance == Summary.category_performance[CasesRun[i].category]
                        IN  /\ performance.total = Cardinality(members)
                            /\ performance.correct = Cardinality(ExpectedIn(members))
                            /\ IsPercentage(performance.accuracy,
                                            Cardinality(ExpectedIn(members)),
                                            Cardinality(members))
                  /\ Get(Summary.status_distribution, "Unknown", 0)
                        = Cardinality(UnknownIn(ran))

\* The checks of TC001 and TC002 raise and those of TC003 and TC006 return
\* the expected status: six records, the later ones correct, half of
\* material_specifications correct and none of safety_requirements.
C23_Witness ==
    /\ benchmark_results.op = "benchmark"
    /\ RaisedIn(1..Len(test_cases)) = {1, 2}
    /\ Len(Records) = Len(test_cases)
    /\ Records[3].is_correct
    /\ Records[6].is_correct
    /\ Summary.category_performance["material_specifications"].accuracy = Fraction(50, 1)
    /\ Summary.category_performance["safety_requirements"].accuracy = Fraction(0, 1)
    /\ Summary.status_distribution["Unknown"] >= 2

\* The keys the report reads from a case record with case[key].
FieldsRead == {CaseFieldsRead[k] : k \in 1..Len(CaseFieldsRead)}

\* C24: every case record of a run, the record of a check that raised
\* included, has all the fields the report generator reads (test_case_name,
\* category, expected_status, actual_status), and generate_benchmark_report
\* on the result of a run completes, with one row per record.
C24_ReportCompletes ==
    /\ benchmark_results.op \in {"benchmark", "benchmark_fixed"} =>
          \A i \in 1..Len(Records) : FieldsRead \subseteq DOMAIN Records[i]
    /\ benchmark_report.op = "report" =>
          /\ ~benchmark_report.raises
          /\ Len(benchmark_report.rows) = Len(Records)

\* The report of a run none of whose checks raised completes, with one row
\* per record holding the name, the category and the two statuses.
ReportOfReturningChecks ==
    (benchmark_report.op = "report" /\ RaisedIn(1..Len(CasesRun)) = {}) =>
        /\ ~benchmark_report.raises
        /\ \A i \in 1..Len(Records) :
              benchmark_report.rows[i] =
                  <<CasesRun[i].name, CasesRun[i].category, CasesRun[i].expected_status,
                    Records[i].actual_status,
                    IF Records[i].is_correct THEN "PASS" ELSE "FAIL">>

\* The report of a run with a check that raised: KeyError on the first key
\* the error record does not have.
ReportRaised ==
    /\ benchmark_report.op = "report"
    /\ benchmark_report.raises
    /\ benchmark_report.key = "expected_status"

====
